---------------------------- MODULE Spec2Model ----------------------------
(***************************************************************************)
(* A model of HindiTokenizer (src/hindi_tokenizer.py): the symbol table    *)
(* built by add_token / initialize_vocab, the UTF-8 corpus encoding, the   *)
(* BPE training loop of build_vocabulary (get_pairs, most_common,          *)
(* merge_pair), tokenize and get_stats.                                    *)
(*                                                                         *)
(* A Python str is a sequence of code points, a list is a sequence, a set  *)
(* is a set.  self.vocab holds str tokens and int merge IDs side by side;  *)
(* the two never compare equal in Python, so a member of vocab is tagged:  *)
(* StrTok(s) or IntTok(n).                                                 *)
(***************************************************************************)
EXTENDS Integers, Sequences, FiniteSets, TLC

VARIABLES
    text,                   \* self.text: the cleaned corpus, a str
    token_to_id,            \* self.token_to_id: dict str -> int
    id_to_token,            \* self.id_to_token: dict int -> str
    next_id,                \* self.next_id
    vocab,                  \* self.vocab: set of StrTok(..), IntTok(..)
    encoded_tokens,         \* self.encoded_tokens: list of lists of int
    initial_vocab_size,     \* self.initial_vocab_size
    initial_tokens_length,  \* self.initial_tokens_length
    vocab_size,             \* self.vocab_size
    iteration,              \* build_vocabulary's local counter
    printed,                \* the progress line printed by the last iteration
    pc,                     \* where the program is
    result                  \* the last public call: its name, argument and outcome

vars == <<text, token_to_id, id_to_token, next_id, vocab, encoded_tokens,
          initial_vocab_size, initial_tokens_length, vocab_size, iteration,
          printed, pc, result>>

---------------------------------------------------------------------------
(* Bounds of the model. *)

\* Small corpora: at most MaxWords words of at most MaxLen characters each.
MaxWords == 2
MaxLen == 2
\* Wide corpora: the first n Devanagari code points, n <= MaxWide, in words of
\* WideWordLen characters, with or without a closing "eng".
MaxWide == 24
WideWordLen == 4
\* tokenize is called on texts of at most MaxPieces pieces.
MaxPieces == 2
\* How many single-character tokens the add_token specification draws from.
MaxAddChars == 3
\* The merge_pair specification: at most MaxMergeWords encoded words of at most
\* MaxMergeLen symbols each.
MaxMergeWords == 2
MaxMergeLen == 3

---------------------------------------------------------------------------
(* Python values. *)

\* self.vocab_size = 50000, and the 50000 of line 38
TargetVocabSize == 50000

StrTok(s) == <<"str", s>>
IntTok(n) == <<"int", n>>
IsStr(t) == t[1] = "str"

SPACE == 32
\* "eng" : what the cleaning leaves of every Latin or numeric run
ENG == <<101, 110, 103>>

special_tokens ==
    << <<60, 112, 97, 100, 62>>,    \* <pad>
       <<60, 101, 111, 115, 62>>,   \* <eos>
       <<60, 98, 111, 115, 62>>,    \* <bos>
       <<60, 117, 110, 107, 62>>,   \* <unk>
       <<60, 110, 117, 109, 62>>,   \* <num>
       <<60, 101, 110, 103, 62>> >> \* <eng>

UNK == special_tokens[4]

\* char.encode('utf-8') for a code point below 0x10000
Utf8(c) ==
    IF c < 128 THEN <<c>>
    ELSE IF c < 2048 THEN <<192 + (c \div 64), 128 + (c % 64)>>
    ELSE <<224 + (c \div 4096), 128 + ((c \div 64) % 64), 128 + (c % 64)>>

\* the k-th smallest member of a set of integers
Ranked(S, k) == CHOOSE x \in S : Cardinality({y \in S : y < x}) = k - 1

\* sorted(set): ascending code points
Sorted(S) == [k \in 1..Cardinality(S) |-> Ranked(S, k)]

\* str.split(): the maximal runs of non-whitespace characters, in order
Split(s) ==
    LET starts == {i \in 1..Len(s) : s[i] # SPACE /\ (i = 1 \/ s[i - 1] = SPACE)}
        EndOf(i) == CHOOSE j \in i..Len(s) :
                        /\ \A m \in i..j : s[m] # SPACE
                        /\ (j = Len(s) \/ s[j + 1] = SPACE)
    IN [k \in 1..Cardinality(starts) |->
            SubSeq(s, Ranked(starts, k), EndOf(Ranked(starts, k)))]

RECURSIVE SumLen(_)
\* sum(len(t) for t in ws)
SumLen(ws) == IF ws = <<>> THEN 0 ELSE Len(Head(ws)) + SumLen(Tail(ws))


---------------------------------------------------------------------------
(* The inputs: cleaned corpora, as load_and_clean_text returns them.  A    *)
(* cleaned text is words joined by single spaces, each word either "eng"   *)
(* or a run of Devanagari characters.                                      *)

DEVANAGARI == 2304                       \* U+0900, the first character kept
SmallAlphabet == {2309, 2340}            \* U+0905 (E0 A4 85), U+0924 (E0 A4 A4)

SeqsUpTo(S, n) == UNION {[1..k -> S] : k \in 0..n}

SmallWords == {ENG} \cup (SeqsUpTo(SmallAlphabet, MaxLen) \ {<<>>})

RECURSIVE Join(_)
\* ' '.join(ws)
Join(ws) ==
    IF ws = <<>> THEN <<>>
    ELSE IF Len(ws) = 1 THEN Head(ws)
    ELSE Head(ws) \o <<SPACE>> \o Join(Tail(ws))

\* The first n Devanagari code points, WideWordLen to a word.
WideWords(n) ==
    [j \in 1..((n + WideWordLen - 1) \div WideWordLen) |->
        [i \in 1..(IF j * WideWordLen <= n THEN WideWordLen
                   ELSE n - (j - 1) * WideWordLen) |->
            DEVANAGARI + (j - 1) * WideWordLen + i - 1]]

Corpora ==
    {Join(ws) : ws \in SeqsUpTo(SmallWords, MaxWords)}
    \cup {Join(WideWords(n)) : n \in 1..MaxWide}
    \cup {Join(Append(WideWords(n), ENG)) : n \in 1..MaxWide}

---------------------------------------------------------------------------
(* The symbol table. *)

NoCall == [op |-> "none", arg |-> <<>>, raised |-> "none", ret |-> <<>>]
NoPrint == [new_id |-> -1]
EmptyDict == [x \in {} |-> 0]

\* add_token without its membership test: a token already present is given
\* a second ID
AddToken_NoCheck(tab, token) ==
    [token_to_id |-> [t \in DOMAIN tab.token_to_id \cup {token} |->
                         IF t = token THEN tab.next_id ELSE tab.token_to_id[t]],
     id_to_token |-> tab.id_to_token @@ (tab.next_id :> token),
     next_id     |-> tab.next_id + 1,
     vocab       |-> tab.vocab \cup {StrTok(token)}]

\* add_token's effect on (token_to_id, id_to_token, next_id, vocab)
AddToken(tab, token) ==
    IF token \notin DOMAIN tab.token_to_id
    THEN [token_to_id |-> tab.token_to_id @@ (token :> tab.next_id),
          id_to_token |-> tab.id_to_token @@ (tab.next_id :> token),
          next_id     |-> tab.next_id + 1,
          vocab       |-> tab.vocab \cup {StrTok(token)}]
    ELSE tab

RECURSIVE AddAll(_, _)
\* for token in tokens: self.add_token(token)
AddAll(tab, tokens) ==
    IF tokens = <<>> THEN tab
    ELSE LET added == AddToken(tab, Head(tokens))
         IN \* the test has TLC evaluate the table before the next token
            IF added.next_id >= 0 THEN AddAll(added, Tail(tokens)) ELSE added

Table == [token_to_id |-> token_to_id, id_to_token |-> id_to_token,
          next_id |-> next_id, vocab |-> vocab]

SetTable(tab) ==
    /\ token_to_id' = tab.token_to_id
    /\ id_to_token' = tab.id_to_token
    /\ next_id' = tab.next_id
    /\ vocab' = tab.vocab

\* sorted(set(char for char in self.text if char.strip()))
UniqueChars(s) ==
    LET cs == Sorted({s[i] : i \in 1..Len(s)} \ {SPACE})
    IN [k \in 1..Len(cs) |-> <<cs[k]>>]

\* __init__ up to the load of the text (lines 14-26)
Init ==
    /\ text \in Corpora
    /\ token_to_id = EmptyDict
    /\ id_to_token = EmptyDict
    /\ next_id = 0
    /\ vocab = {}
    /\ encoded_tokens = <<>>
    /\ initial_vocab_size = 0
    /\ initial_tokens_length = 0
    /\ vocab_size = TargetVocabSize
    /\ iteration = 0
    /\ printed = NoPrint
    /\ pc = "initialize_vocab"
    /\ result = NoCall

\* initialize_vocab: the special tokens first, then the corpus characters
InitializeVocab ==
    /\ pc = "initialize_vocab"
    /\ SetTable(AddAll(AddAll(Table, special_tokens), UniqueChars(text)))
    /\ pc' = "convert_to_utf8"
    /\ UNCHANGED <<text, encoded_tokens, initial_vocab_size,
                   initial_tokens_length, vocab_size, iteration, printed, result>>

RECURSIVE EncodeWord(_)
\* one word's characters, each extended by its UTF-8 bytes
EncodeWord(w) == IF w = <<>> THEN <<>> ELSE Utf8(Head(w)) \o EncodeWord(Tail(w))

\* convert_to_utf8: one list of byte values per whitespace-delimited word
convert_to_utf8(s) == LET ws == Split(s) IN [j \in 1..Len(ws) |-> EncodeWord(ws[j])]

\* __init__ lines 32-38 and build_vocabulary's line 206
ConvertToUtf8 ==
    /\ pc = "convert_to_utf8"
    /\ encoded_tokens' = convert_to_utf8(text)
    /\ initial_vocab_size' = Cardinality(vocab)
    /\ vocab_size' = TargetVocabSize - Cardinality(vocab)
    /\ initial_tokens_length' = SumLen(convert_to_utf8(text))
    /\ pc' = "Training"
    /\ UNCHANGED <<text, token_to_id, id_to_token, next_id, vocab, iteration,
                   printed, result>>

---------------------------------------------------------------------------
(* Training: get_pairs, Counter.most_common, merge_pair, build_vocabulary. *)

\* pairs[pair] += 1 on a Counter, which keeps its keys in insertion order
Increment(pairs, pair) ==
    IF \E k \in 1..Len(pairs) : pairs[k].pair = pair
    THEN LET k == CHOOSE k \in 1..Len(pairs) : pairs[k].pair = pair
         IN [pairs EXCEPT ![k] = [pair |-> pair, count |-> pairs[k].count + 1]]
    ELSE Append(pairs, [pair |-> pair, count |-> 1])

RECURSIVE CountWord(_, _, _)
\* for i in range(len(encoded_token)-1): pairs[(t[i], t[i+1])] += 1
CountWord(pairs, w, i) ==
    IF i > Len(w) - 1 THEN pairs
    ELSE LET counted == Increment(pairs, <<w[i], w[i + 1]>>)
         IN \* the test has TLC evaluate the Counter before the next position
            IF Len(counted) > 0 THEN CountWord(counted, w, i + 1) ELSE counted

RECURSIVE CountFrom(_, _, _)
\* for encoded_token in self.encoded_tokens: skip the short ones, count the rest
CountFrom(pairs, ws, j) ==
    IF j > Len(ws) THEN pairs
    ELSE LET counted == IF Len(ws[j]) < 2 THEN pairs
                        ELSE CountWord(pairs, ws[j], 1)
         IN \* the test has TLC evaluate the Counter before the next word
            IF Len(counted) >= 0 THEN CountFrom(counted, ws, j + 1) ELSE counted

RECURSIVE Flatten(_)
Flatten(ws) == IF ws = <<>> THEN <<>> ELSE Head(ws) \o Flatten(Tail(ws))

\* get_pairs over the corpus as one sequence: the last symbol of a word is
\* paired with the first symbol of the next
get_pairs_flat(ws) == CountWord(<<>>, Flatten(ws), 1)

\* get_pairs: the Counter as the sequence of its (pair, count) items
get_pairs(ws) == CountFrom(<<>>, ws, 1)

RECURSIVE MaxFrom(_, _, _)
\* max(items, key=count): the first item holding the largest count
MaxFrom(pairs, k, best) ==
    IF k > Len(pairs) THEN best
    ELSE MaxFrom(pairs, k + 1, IF pairs[k].count > best.count THEN pairs[k] ELSE best)

RECURSIVE MaxFromLast(_, _, _)
MaxFromLast(pairs, k, best) ==
    IF k > Len(pairs) THEN best
    ELSE MaxFromLast(pairs, k + 1,
                     IF pairs[k].count >= best.count THEN pairs[k] ELSE best)

\* most_common taking the last of the items that hold the largest count
most_common_last(pairs) == MaxFromLast(pairs, 2, pairs[1])

\* pairs.most_common(1)[0], for a non-empty Counter
most_common(pairs) == MaxFrom(pairs, 2, pairs[1])

RECURSIVE MergeWord_NoSkip(_, _, _, _)
\* merge_pair's scan stepping by one after a match: the second symbol of the
\* pair is read again
MergeWord_NoSkip(w, pair, token_id, i) ==
    IF i > Len(w) THEN [new_token |-> <<>>, any_changes |-> FALSE]
    ELSE IF i < Len(w) /\ w[i] = pair[1] /\ w[i + 1] = pair[2]
         THEN LET r == MergeWord_NoSkip(w, pair, token_id, i + 1)
              IN [new_token |-> <<token_id>> \o r.new_token, any_changes |-> TRUE]
         ELSE LET r == MergeWord_NoSkip(w, pair, token_id, i + 1)
              IN [new_token |-> <<w[i]>> \o r.new_token,
                  any_changes |-> r.any_changes]

RECURSIVE MergeWord(_, _, _, _)
\* merge_pair's scan of one encoded word from position i (1-based)
MergeWord(w, pair, token_id, i) ==
    IF i > Len(w) THEN [new_token |-> <<>>, any_changes |-> FALSE]
    ELSE IF i < Len(w) /\ w[i] = pair[1] /\ w[i + 1] = pair[2]
         THEN LET r == MergeWord(w, pair, token_id, i + 2)
              IN [new_token |-> <<token_id>> \o r.new_token, any_changes |-> TRUE]
         ELSE LET r == MergeWord(w, pair, token_id, i + 1)
              IN [new_token |-> <<w[i]>> \o r.new_token,
                  any_changes |-> r.any_changes]

\* merge_pair that reports the rewrite but never stores the rewritten words
merge_pair_NoStore(ws, pair, token_id) ==
    [encoded_tokens |-> ws,
     ret |-> \E j \in 1..Len(ws) :
                \E i \in 1..(Len(ws[j]) - 1) :
                    ws[j][i] = pair[1] /\ ws[j][i + 1] = pair[2]]

\* merge_pair: the new self.encoded_tokens and the value returned
merge_pair(ws, pair, token_id) ==
    LET rs == [j \in 1..Len(ws) |-> MergeWord(ws[j], pair, token_id, 1)]
        any_changes == \E j \in 1..Len(ws) : rs[j].any_changes
    IN [encoded_tokens |-> IF any_changes
                           THEN [j \in 1..Len(ws) |-> rs[j].new_token]
                           ELSE ws,
        ret |-> any_changes]

\* while len(self.vocab) < self.vocab_size
LoopCond == Cardinality(vocab) < vocab_size

\* new_id computed from the vocabulary size of before training only
NewId_Stale == initial_vocab_size + initial_vocab_size

\* new_id = len(self.vocab) + self.initial_vocab_size
NewId == Cardinality(vocab) + initial_vocab_size

\* one iteration of build_vocabulary's loop that gets past the break
BuildIteration ==
    /\ pc = "Training"
    /\ LoopCond
    /\ get_pairs(encoded_tokens) # <<>>
    /\ LET mc == most_common(get_pairs(encoded_tokens))
           m == merge_pair(encoded_tokens, mc.pair, NewId)
       IN /\ encoded_tokens' = m.encoded_tokens
          /\ vocab' = IF m.ret THEN vocab \cup {IntTok(NewId)} ELSE vocab
          /\ printed' = IF m.ret
                        THEN [pair |-> mc.pair, freq |-> mc.count, new_id |-> NewId,
                              tokens_before |-> SumLen(encoded_tokens),
                              tokens_after |-> SumLen(m.encoded_tokens)]
                        ELSE printed
    /\ iteration' = iteration + 1
    /\ UNCHANGED <<text, token_to_id, id_to_token, next_id, initial_vocab_size,
                   initial_tokens_length, vocab_size, pc, result>>

\* the loop is left: its condition fails (line 214), or it holds and
\* get_pairs finds nothing (if not pairs: break)
ExitLoop ==
    /\ pc = "Training"
    /\ IF LoopCond THEN get_pairs(encoded_tokens) = <<>> ELSE TRUE
    /\ pc' = "Converged"
    /\ UNCHANGED <<text, token_to_id, id_to_token, next_id, vocab, encoded_tokens,
                   initial_vocab_size, initial_tokens_length, vocab_size,
                   iteration, printed, result>>

---------------------------------------------------------------------------
(* The public calls on a constructed tokenizer. *)

\* text[current_pos:].startswith(token), pos counted from 1
StartsWith(s, pos, tok) ==
    /\ Len(tok) <= Len(s) - pos + 1
    /\ \A k \in 1..Len(tok) : s[pos + k - 1] = tok[k]

RECURSIVE TokenizeFrom(_, _)
\* tokenize's loop from current_pos on, every vocab entry being a str
TokenizeFrom(s, pos) ==
    IF pos > Len(s) THEN <<>>
    ELSE LET matches == {t \in vocab : StartsWith(s, pos, t[2])}
         IN IF matches # {}
            THEN LET longest_token ==
                         CHOOSE t \in matches :
                             \A u \in matches : Len(u[2]) <= Len(t[2])
                 IN <<token_to_id[longest_token[2]]>>
                    \o TokenizeFrom(s, pos + Len(longest_token[2]))
            ELSE <<token_to_id[UNK]>> \o TokenizeFrom(s, pos + 1)

\* tokenize: str.startswith raises TypeError on an int entry of self.vocab, and
\* the first pass of the loop tries every entry
tokenize(s) ==
    IF s # <<>> /\ \E t \in vocab : ~IsStr(t)
    THEN [raised |-> "TypeError", ret |-> <<>>]
    ELSE [raised |-> "none", ret |-> TokenizeFrom(s, 1)]

\* a / b as Python computes it, kept as the fraction; 0 is <<0, 1>>
Ratio(a, b) == IF b > 0 THEN <<a, b>> ELSE <<0, 1>>

\* get_stats
get_stats ==
    LET final_tokens == SumLen(encoded_tokens)
    IN [initial_tokens |-> initial_tokens_length,
        initial_vocab |-> initial_vocab_size,
        final_tokens |-> final_tokens,
        final_vocab |-> Cardinality(vocab) + initial_vocab_size,
        compression_ratio |-> Ratio(initial_tokens_length, final_tokens)]

\* What tokenize is called on: up to MaxPieces pieces, a piece being a corpus
\* character, a character no corpus holds, "<" or a special token.
Pieces == {<<2309>>, <<120>>, <<60>>, UNK}

RECURSIVE Concat(_)
Concat(ps) == IF ps = <<>> THEN <<>> ELSE Head(ps) \o Concat(Tail(ps))

TokenizeInputs == {Concat(ps) : ps \in SeqsUpTo(Pieces, MaxPieces)}

Tokenize ==
    /\ pc = "Converged"
    /\ \E s \in TokenizeInputs :
          LET r == tokenize(s)
          IN result' = [op |-> "tokenize", arg |-> s, raised |-> r.raised,
                        ret |-> r.ret]
    /\ UNCHANGED <<text, token_to_id, id_to_token, next_id, vocab, encoded_tokens,
                   initial_vocab_size, initial_tokens_length, vocab_size,
                   iteration, printed, pc>>

GetStats ==
    /\ pc = "Converged"
    /\ result' = [op |-> "get_stats", arg |-> <<>>, raised |-> "none",
                  ret |-> get_stats]
    /\ UNCHANGED <<text, token_to_id, id_to_token, next_id, vocab, encoded_tokens,
                   initial_vocab_size, initial_tokens_length, vocab_size,
                   iteration, printed, pc>>

\* __init__: the tokenizer is trained while it is constructed
Next == InitializeVocab \/ ConvertToUtf8 \/ BuildIteration \/ ExitLoop

Spec == Init /\ [][Next]_vars

---------------------------------------------------------------------------
(* The size limit.  It takes a corpus that allows 50000 - 2 * 122 merges;  *)
(* this one is a file of 40 words of 1951 Devanagari letters each, joined  *)
(* by single spaces, which load_and_clean_text returns as it is.  On it    *)
(* build_vocabulary makes 49756 iterations.  The model enters the run at   *)
(* the loop test that follows the first 49755 of them, in the state the    *)
(* code is in at that test, and goes on from there.                        *)

\* the i-th letter of the file, counted from 1 across the words: one of the
\* 116 code points of U+0900..U+097F outside U+0964..U+096F (the danda, the
\* double danda and the digits, which the cleaning replaces)
LimitLetter(i) ==
    LET a == ((i % 40009) * 40013 + i) % 40031
        b == (a * ((i % 30011) + 7)) % 46337
        c == (b * 31337 + a) % 46349
        j == c % 116
    IN DEVANAGARI + (IF j < 100 THEN j ELSE j + 12)

\* the cleaned text of the file
LimitText ==
    LET W == 40
        L == 1951
    IN [p \in 1..(W * (L + 1) - 1) |->
           IF p % (L + 1) = 0 THEN SPACE
           ELSE LimitLetter(((p - 1) \div (L + 1)) * L + (p % (L + 1)))]

\* what initialize_vocab builds for LimitText: the special tokens, then the
\* 116 letters, all of which occur in it, in code point order
LimitTable ==
    LET letters == [j \in 1..116 |->
                       <<DEVANAGARI + (IF j <= 100 THEN j - 1 ELSE j + 11)>>]
        tokens == special_tokens \o letters
    IN [token_to_id |-> [t \in {tokens[k] : k \in 1..Len(tokens)} |->
                            (CHOOSE k \in 1..Len(tokens) : tokens[k] = t) - 1],
        id_to_token |-> [n \in 0..(Len(tokens) - 1) |-> tokens[n + 1]],
        next_id     |-> Len(tokens),
        vocab       |-> {StrTok(tokens[k]) : k \in 1..Len(tokens)}]

\* self.encoded_tokens at the loop test after 49755 iterations: every word
\* but the last is down to one symbol
LimitEncoded ==
    <<
      <<10696>>, <<11690>>, <<12680>>, <<13644>>, <<14628>>, <<15631>>,
      <<16619>>, <<17593>>, <<18586>>, <<19592>>, <<20585>>, <<21592>>,
      <<22593>>, <<23595>>, <<24572>>, <<25583>>, <<26605>>, <<27610>>,
      <<28639>>, <<29685>>, <<30686>>, <<31698>>, <<32726>>, <<33735>>,
      <<34753>>, <<35756>>, <<36772>>, <<37769>>, <<38795>>, <<39823>>,
      <<40855>>, <<41874>>, <<42888>>, <<43874>>, <<44865>>, <<45887>>,
      <<46901>>, <<47952>>, <<48983>>, <<49998, 1557, 312, 977, 5319, 9596,
      5376, 2038, 9348, 339, 2442, 314, 2716, 7216, 6447, 144>>
    >>

\* the state at the loop test after 49755 iterations on LimitText
InitLimit ==
    LET merges == 49755
        I == LimitTable.next_id
    IN /\ text = LimitText
       /\ token_to_id = LimitTable.token_to_id
       /\ id_to_token = LimitTable.id_to_token
       /\ next_id = LimitTable.next_id
       /\ vocab = LimitTable.vocab
                  \cup {IntTok(n) : n \in (2 * I)..(2 * I + merges - 1)}
       /\ encoded_tokens = LimitEncoded
       /\ initial_vocab_size = I
       /\ initial_tokens_length = 3 * 40 * 1951
       /\ vocab_size = TargetVocabSize - I
       /\ iteration = merges
       /\ printed = [pair |-> <<49997, 314>>, freq |-> 1, new_id |-> 49998,
                     tokens_before |-> 56, tokens_after |-> 55]
       /\ pc = "Training"
       /\ result = NoCall

\* training on the corpora of Spec from the start, and on LimitText from
\* InitLimit
SpecLimit == (Init \/ InitLimit) /\ [][Next]_vars

\* __init__, then any public calls on the trained tokenizer
NextCalls == Next \/ Tokenize \/ GetStats

SpecCalls == Init /\ [][NextCalls]_vars

---------------------------------------------------------------------------
(* add_token on its own: calls in any order on a table that starts empty,  *)
(* among them initialize_vocab's first loop over the special tokens.       *)

AddChars == {<<DEVANAGARI + k>> : k \in 1..MaxAddChars}
AddInputs == {special_tokens[1], UNK} \cup AddChars

InitAdd ==
    /\ text = <<>>
    /\ token_to_id = EmptyDict
    /\ id_to_token = EmptyDict
    /\ next_id = 0
    /\ vocab = {}
    /\ encoded_tokens = <<>>
    /\ initial_vocab_size = 0
    /\ initial_tokens_length = 0
    /\ vocab_size = TargetVocabSize
    /\ iteration = 0
    /\ printed = NoPrint
    /\ pc = "add_token"
    /\ result = NoCall

\* for token in self.special_tokens: self.add_token(token), on the new table
AddSpecialTokens ==
    /\ pc = "add_token"
    /\ next_id = 0
    /\ SetTable(AddAll(Table, special_tokens))
    /\ result' = [op |-> "special_tokens", arg |-> <<>>, raised |-> "none",
                  ret |-> <<>>]
    /\ UNCHANGED <<text, encoded_tokens, initial_vocab_size, initial_tokens_length,
                   vocab_size, iteration, printed, pc>>

\* self.add_token(token)
AddTokenCall ==
    /\ pc = "add_token"
    /\ \E token \in AddInputs :
          /\ SetTable(AddToken(Table, token))
          /\ result' = [op |-> "add_token", arg |-> token, raised |-> "none",
                        ret |-> <<>>]
    /\ UNCHANGED <<text, encoded_tokens, initial_vocab_size, initial_tokens_length,
                   vocab_size, iteration, printed, pc>>

NextAdd == AddSpecialTokens \/ AddTokenCall

SpecAdd == InitAdd /\ [][NextAdd]_vars

---------------------------------------------------------------------------
(* merge_pair on its own: one call with any pair and any token_id on       *)
(* encoded words of up to MaxMergeLen symbols.                             *)

MergeSymbols == {164, 224}              \* 0xA4 and 0xE0, bytes of Devanagari text
MergeTokenIds == {164, 300}             \* an ID that is in use, and a fresh one

MergeWordsIn == SeqsUpTo(MergeSymbols, MaxMergeLen) \ {<<>>}

InitMerge ==
    /\ text = <<>>
    /\ token_to_id = EmptyDict
    /\ id_to_token = EmptyDict
    /\ next_id = 0
    /\ vocab = {}
    /\ encoded_tokens \in SeqsUpTo(MergeWordsIn, MaxMergeWords)
    /\ initial_vocab_size = 0
    /\ initial_tokens_length = 0
    /\ vocab_size = TargetVocabSize
    /\ iteration = 0
    /\ printed = NoPrint
    /\ pc = "merge_pair"
    /\ result = NoCall

\* self.merge_pair(pair, pair, token_id)
MergePairCall ==
    /\ pc = "merge_pair"
    /\ \E pair \in MergeSymbols \X MergeSymbols, token_id \in MergeTokenIds :
          LET m == merge_pair(encoded_tokens, pair, token_id)
          IN /\ encoded_tokens' = m.encoded_tokens
             /\ result' = [op |-> "merge_pair",
                           arg |-> [pair |-> pair, token_id |-> token_id,
                                    before |-> encoded_tokens],
                           raised |-> "none", ret |-> m.ret]
    /\ pc' = "returned"
    /\ UNCHANGED <<text, token_to_id, id_to_token, next_id, vocab,
                   initial_vocab_size, initial_tokens_length, vocab_size,
                   iteration, printed>>

NextMerge == MergePairCall

SpecMerge == InitMerge /\ [][NextMerge]_vars

---------------------------------------------------------------------------
(* What the claims speak of, stated apart from the code's own scan.        *)

\* the symbols present in the encoded words
Symbols(ws) == UNION {{ws[j][i] : i \in 1..Len(ws[j])} : j \in 1..Len(ws)}

\* where pair p stands inside a word: <<word index, position>>
Occurrences(ws, p) ==
    UNION {{<<j, i>> : i \in {i \in 1..(Len(ws[j]) - 1) :
                                ws[j][i] = p[1] /\ ws[j][i + 1] = p[2]}} :
           j \in 1..Len(ws)}

\* the pairs of symbols adjacent inside one word
AdjacentPairs(ws) ==
    UNION {{<<ws[j][i], ws[j][i + 1]>> : i \in 1..(Len(ws[j]) - 1)} :
           j \in 1..Len(ws)}

\* scan order: lower word index, then lower position
Before(a, b) == a[1] < b[1] \/ (a[1] = b[1] /\ a[2] < b[2])

FirstOccurrence(ws, p) ==
    CHOOSE o \in Occurrences(ws, p) :
        \A o2 \in Occurrences(ws, p) : o2 = o \/ Before(o, o2)

\* p has the largest count, and of the pairs with that count the earliest start
EarliestMostFrequent(ws, p) ==
    /\ p \in AdjacentPairs(ws)
    /\ \A q \in AdjacentPairs(ws) \ {p} :
          \/ Cardinality(Occurrences(ws, q)) < Cardinality(Occurrences(ws, p))
          \/ /\ Cardinality(Occurrences(ws, q)) = Cardinality(Occurrences(ws, p))
             /\ Before(FirstOccurrence(ws, p), FirstOccurrence(ws, q))

RECURSIVE Unmerge(_, _, _)
\* every token_id of w written back as the two symbols of pair
Unmerge(w, token_id, pair) ==
    IF w = <<>> THEN <<>>
    ELSE (IF Head(w) = token_id THEN pair ELSE <<Head(w)>>)
         \o Unmerge(Tail(w), token_id, pair)

\* a step of the training loop
IterationStep == pc = "Training" /\ iteration' = iteration + 1

\* the loop is about to run its body past the break
AboutToMerge == pc = "Training" /\ LoopCond /\ get_pairs(encoded_tokens) # <<>>

---------------------------------------------------------------------------
(* The claims. *)

\* C1: in every iteration the new_id minted for the selected pair is fresh: it
\* is no ID of the symbol table, no merge ID minted before, and no symbol
\* present in any encoded word.
C1_NewIdFresh ==
    AboutToMerge =>
        /\ NewId \notin DOMAIN id_to_token
        /\ IntTok(NewId) \notin vocab
        /\ NewId \notin Symbols(encoded_tokens)

\* C2: tokenize returns a list of IDs and never raises, whatever the trained
\* model (any number of merges) and whatever the input text.
C2_TokenizeNeverRaises ==
    result.op = "tokenize" =>
        /\ result.raised = "none"
        /\ \A k \in 1..Len(result.ret) : result.ret[k] \in DOMAIN id_to_token

\* C3: training leaves Training for Converged only when no pairs are left or
\* the number of distinct symbols has reached the target; no merge is made
\* exactly when the initial symbol count meets the target or no pairs exist.
C3_ConvergedOnlyAtTargetOrNoPairs ==
    pc = "Converged" =>
        /\ \/ get_pairs(encoded_tokens) = <<>>
           \/ Cardinality(vocab) >= TargetVocabSize
        /\ iteration = 0 <=>
              \/ initial_vocab_size >= TargetVocabSize
              \/ get_pairs(convert_to_utf8(text)) = <<>>

\* C4: during build_vocabulary the vocabulary grows by exactly one on every
\* iteration whose merge_pair call returns True and is unchanged otherwise,
\* and it never exceeds the target when it started at or below it.
C4_VocabGrowsByOneWithinTarget ==
    /\ [](pc \in {"Training", "Converged"} /\ initial_vocab_size <= TargetVocabSize
            => Cardinality(vocab) <= TargetVocabSize)
    /\ [][pc = "Training" =>
            IF /\ iteration' = iteration + 1
               /\ merge_pair(encoded_tokens,
                             most_common(get_pairs(encoded_tokens)).pair,
                             NewId).ret
            THEN Cardinality(vocab') = Cardinality(vocab) + 1
            ELSE vocab' = vocab]_vars

C4_Witness ==
    /\ pc = "Converged"
    /\ iteration >= 2
    /\ Cardinality(vocab) = initial_vocab_size + iteration
    /\ ~LoopCond

\* C5: get_stats reports final_vocab as the number of distinct symbols of the
\* trained model (initial_vocab plus the successful merges) and a compression
\* ratio of 0 when final_tokens is 0; for the empty corpus no merge is made,
\* final_vocab is the special-token count and the ratio is 0.
C5_StatsReportTheModel ==
    result.op = "get_stats" =>
        /\ result.ret.final_vocab = Cardinality(vocab)
        /\ result.ret.final_vocab = result.ret.initial_vocab + iteration
        /\ result.ret.final_tokens = 0 => result.ret.compression_ratio[1] = 0
        /\ text = <<>> =>
              /\ iteration = 0
              /\ result.ret.final_vocab = Len(special_tokens)
              /\ result.ret.compression_ratio[1] = 0

RECURSIVE Copies(_, _)
\* [x] * k
Copies(x, k) == IF k = 0 THEN <<>> ELSE <<x>> \o Copies(x, k - 1)

\* C6: merge_pair rewrites each encoded word in one left-to-right scan that
\* replaces the pair at (i, i+1) by token_id and resumes at i+2: a run of k a's
\* under pair (a, a) becomes k div 2 token_ids followed by k mod 2 a's; no
\* occurrence of the pair is left and, for a pair (a, a), no a stands before a
\* token_id; the other symbols keep their value and order (writing the pair
\* back for token_id gives the word of before); it returns True iff some
\* occurrence was rewritten, and encoded_tokens is unchanged when it returns
\* False.
C6_MergePairScansLeftToRight ==
    result.op = "merge_pair" =>
        LET before == result.arg.before
            pair == result.arg.pair
            token_id == result.arg.token_id
        IN /\ Len(encoded_tokens) = Len(before)
           /\ result.ret <=> Occurrences(before, pair) # {}
           /\ ~result.ret => encoded_tokens = before
           /\ \A j \in 1..Len(before) :
                 /\ (pair[1] = pair[2] /\ before[j] = Copies(pair[1], Len(before[j])))
                       => encoded_tokens[j]
                             = Copies(token_id, Len(before[j]) \div 2)
                               \o Copies(pair[1], Len(before[j]) % 2)
                 /\ token_id \notin Symbols(<<before[j]>>) =>
                       /\ Unmerge(encoded_tokens[j], token_id, pair) = before[j]
                       /\ Occurrences(<<encoded_tokens[j]>>, pair) = {}
                       /\ pair[1] = pair[2] =>
                             Occurrences(<<encoded_tokens[j]>>, <<pair[1], token_id>>) = {}

\* a run of three a's merged under (a, a): the odd a is left at the end
C6_Witness ==
    /\ result.op = "merge_pair"
    /\ result.ret
    /\ result.arg.pair = <<164, 164>>
    /\ result.arg.token_id = 300
    /\ \E j \in 1..Len(encoded_tokens) :
          /\ result.arg.before[j] = <<164, 164, 164>>
          /\ encoded_tokens[j] = <<300, 164>>

\* C7: the pair merged in an iteration has the largest count over the current
\* encoded words and, among the pairs with that count, the earliest first
\* occurrence in scan order (word index, then position); the ID it gets and
\* the words it leaves are determined by the encoded words before the step.
C7_MergedPairIsEarliestMostFrequent ==
    [][IterationStep =>
          /\ EarliestMostFrequent(encoded_tokens, printed'.pair)
          /\ printed'.freq = Cardinality(Occurrences(encoded_tokens, printed'.pair))
          /\ printed'.new_id = NewId
          /\ encoded_tokens' =
                merge_pair(encoded_tokens, printed'.pair, printed'.new_id).encoded_tokens
      ]_vars

\* a merge has been made and the next choice is a tie between pairs of two words
C7_Witness ==
    /\ AboutToMerge
    /\ iteration >= 1
    /\ \E p, q \in AdjacentPairs(encoded_tokens) :
          /\ p # q
          /\ EarliestMostFrequent(encoded_tokens, p)
          /\ Cardinality(Occurrences(encoded_tokens, q))
                = Cardinality(Occurrences(encoded_tokens, p))
          /\ FirstOccurrence(encoded_tokens, p)[1] # FirstOccurrence(encoded_tokens, q)[1]

RECURSIVE SumCounts(_)
SumCounts(pairs) == IF pairs = <<>> THEN 0 ELSE Head(pairs).count + SumCounts(Tail(pairs))

\* C8: no merge crosses a word boundary.  get_pairs counts exactly the pairs
\* adjacent inside one word (a word of fewer than two symbols adds nothing);
\* the number of encoded words stays the number of whitespace-delimited words
\* of the corpus; a merge leaves a word without the pair as it is, and writing
\* the pair back for the new ID in word j gives the word j of before.
C8_NoMergeAcrossWords ==
    /\ [](pc \in {"Training", "Converged"} =>
            /\ Len(encoded_tokens) = Len(Split(text))
            /\ LET pairs == get_pairs(encoded_tokens)
               IN /\ {pairs[k].pair : k \in 1..Len(pairs)} = AdjacentPairs(encoded_tokens)
                  /\ \A k \in 1..Len(pairs) :
                        pairs[k].count
                           = Cardinality(Occurrences(encoded_tokens, pairs[k].pair))
                  /\ SumCounts(pairs)
                        = SumLen(encoded_tokens)
                          - Cardinality({j \in 1..Len(encoded_tokens) :
                                            Len(encoded_tokens[j]) >= 1}))
    /\ [][IterationStep =>
            /\ Len(encoded_tokens') = Len(encoded_tokens)
            /\ \A j \in 1..Len(encoded_tokens) :
                  /\ (\A o \in Occurrences(encoded_tokens, printed'.pair) : o[1] # j)
                        => encoded_tokens'[j] = encoded_tokens[j]
                  /\ printed'.new_id \notin Symbols(<<encoded_tokens[j]>>)
                        => Unmerge(encoded_tokens'[j], printed'.new_id, printed'.pair)
                              = encoded_tokens[j]
      ]_vars

\* two words, one just rewritten by a merge and one that never held the pair
C8_Witness ==
    /\ pc = "Training"
    /\ iteration >= 1
    /\ Len(encoded_tokens) >= 2
    /\ \E j, k \in 1..Len(encoded_tokens) :
          /\ printed.new_id \in Symbols(<<encoded_tokens[j]>>)
          /\ printed.new_id \notin Symbols(<<encoded_tokens[k]>>)
          /\ Len(encoded_tokens[k]) >= 2

\* C9: after any add_token calls on a table that started empty,
\* token_to_id and id_to_token are inverse one-to-one mappings, the IDs are
\* exactly 0..next_id-1, next_id is the number of distinct tokens added; a
\* new token gets the ID next_id and no older entry moves (first-added
\* order); add_token on a token already present changes nothing; the six
\* special tokens, added first, hold the IDs 0..5 in their listed order.
C9_SymbolTableIsBijection ==
    /\ [](/\ DOMAIN id_to_token = 0..(next_id - 1)
          /\ next_id = Cardinality(DOMAIN token_to_id)
          /\ \A i \in DOMAIN id_to_token :
                /\ id_to_token[i] \in DOMAIN token_to_id
                /\ token_to_id[id_to_token[i]] = i
          /\ \A t \in DOMAIN token_to_id :
                /\ token_to_id[t] \in DOMAIN id_to_token
                /\ id_to_token[token_to_id[t]] = t
          /\ vocab = {StrTok(t) : t \in DOMAIN token_to_id})
    /\ [][/\ \A t \in DOMAIN token_to_id :
                t \in DOMAIN token_to_id' /\ token_to_id'[t] = token_to_id[t]
          /\ result'.op = "add_token" =>
                IF result'.arg \in DOMAIN token_to_id
                THEN /\ token_to_id' = token_to_id
                     /\ id_to_token' = id_to_token
                     /\ next_id' = next_id
                ELSE /\ token_to_id'[result'.arg] = next_id
                     /\ next_id' = next_id + 1
          /\ result'.op = "special_tokens" =>
                \A k \in 1..Len(special_tokens) :
                    token_to_id'[special_tokens[k]] = k - 1
      ]_vars

\* the special tokens went in first, a character after them, and the last
\* call added a token that was already there
C9_Witness ==
    /\ result.op = "add_token"
    /\ next_id = Len(special_tokens) + 2
    /\ token_to_id[UNK] = 3
    /\ result.arg \in DOMAIN token_to_id
    /\ token_to_id[result.arg] < next_id - 1

\* C10: build_vocabulary terminates.  Every iteration that finds pairs merges
\* (merge_pair returns True, so a line is printed for the new ID) and strictly
\* lowers the total number of symbols, so the iterations made and the symbols
\* left never add up to more than the symbols the corpus started with; the
\* loop is left only because no pair remains or the size limit is reached.
C10_TrainingTerminates ==
    /\ [](pc \in {"Training", "Converged"} =>
            iteration + SumLen(encoded_tokens) <= initial_tokens_length)
    /\ [][IterationStep =>
            /\ printed'.new_id = NewId
            /\ SumLen(encoded_tokens') < SumLen(encoded_tokens)
            /\ printed'.tokens_after < printed'.tokens_before
      ]_vars
    /\ [][pc = "Training" /\ pc' = "Converged" =>
            ~LoopCond \/ get_pairs(encoded_tokens) = <<>>]_vars

\* the pairs ran out below the size limit, after some merges
C10_Witness ==
    /\ pc = "Converged"
    /\ iteration >= 1
    /\ LoopCond
    /\ get_pairs(encoded_tokens) = <<>>

===========================================================================
